---- MODULE Spec2Model ----
(***************************************************************************)
(* Model of the query-routing and Text2SQL pipeline of database-agent:     *)
(* QueryRouter.classify_query / route_query (app/agents/router.py), the    *)
(* three handlers (app/agents/text2sql.py, chat.py, visualization.py) and  *)
(* DatabaseConnector.execute_query (app/database/connector.py).            *)
(*                                                                         *)
(* One route_query call is one pass of pc through                          *)
(*   idle -> classify -> {verify -> generate -> execute | chat | viz}      *)
(*        -> returned | raised -> idle                                     *)
(* after the router was constructed (new -> idle | failed).                *)
(* Each action is the code between two collaborator calls together with    *)
(* the outcome of the collaborator call (value, null or exception), which  *)
(* is drawn from a small set.                                              *)
(*                                                                         *)
(* Python None is the string None; "" is the empty str.  Floats are the    *)
(* strings of their literals.  A dict is a function whose DOMAIN is the    *)
(* set of keys present.                                                    *)
(***************************************************************************)
EXTENDS Integers, Sequences, FiniteSets, TLC

\* ------------------------------------------------------------------
\* Bounds of the model
\* ------------------------------------------------------------------
MaxRows == 2
MaxHistory == 1

\* ------------------------------------------------------------------
\* Values
\* ------------------------------------------------------------------
None == "None"

Queries == {"list all customers", "and last month too"}
UpdatedQueries == {None, "", "show sales for last month"}
Confidences == {"1.0", "0.95"}
Errors == {"timeout"}
Sqls == {"SELECT * FROM customers;", "DELETE FROM customers", ""}
Explanations == {"expl"}
Questions == {None, "", "Which table?"}
Answers == {"It is sunny."}
CellValues == {"a", "b"}
ColumnLists == {<<"id">>, <<"id", "name">>}

Truthy(s) == s # None /\ s # ""

BoundedSeq(S, n) == UNION {[1..k -> S] : k \in 0..n}

\* QueryType(str, Enum)
QueryType == {"Text2SQL", "Visualization", "Chat"}

\* QueryValidationType(Enum)
QueryValidationType == {"valid", "requires_clarification", "invalid"}

\* ------------------------------------------------------------------
\* Conversation context: None, a Context (messages only, no
\* chat_history attribute) or any object carrying chat_history.  A
\* message is either a dict, as Context.add_message builds it, or an
\* object with role and content attributes.
\* ------------------------------------------------------------------
Context(messages) == [kind |-> "Context", messages |-> messages, chat_history |-> <<>>]

HistoryObject(chat_history) == [kind |-> "HistoryObject", messages |-> <<>>, chat_history |-> chat_history]

NoContext == [kind |-> "None", messages |-> <<>>, chat_history |-> <<>>]

Messages == [form : {"dict", "object"}, role : {"user", "assistant"}, content : {"hi"}, query_type : {None}]

DictMessages == {m \in Messages : m.form = "dict"}

Contexts ==
    {NoContext}
    \cup {Context(ms) : ms \in BoundedSeq(DictMessages, MaxHistory)}
    \cup {HistoryObject(h) : h \in BoundedSeq(Messages, MaxHistory)}

\* Context.add_message
add_message(context, role, content, query_type) ==
    [context EXCEPT !.messages =
        Append(@, [form |-> "dict", role |-> role, content |-> content, query_type |-> query_type])]

\* ------------------------------------------------------------------
\* Response model.  Every response is one record; cls is the Python
\* class of the object.
\* ------------------------------------------------------------------
NoResults == [none |-> TRUE]

NoResponse ==
    [cls |-> "none", success |-> FALSE, query_type |-> None, query |-> None,
     message |-> None, error |-> None, needs_clarification |-> FALSE,
     clarification_question |-> None, sql_query |-> None,
     query_results |-> NoResults, answer |-> None]

Text2SQLResponse(success, query, message, error, sql_query, query_results) ==
    [cls |-> "Text2SQLResponse", success |-> success, query_type |-> "Text2SQL",
     query |-> query, message |-> message, error |-> error,
     needs_clarification |-> FALSE, clarification_question |-> None,
     sql_query |-> sql_query, query_results |-> query_results, answer |-> None]

clarification_response(query_type, query, explanation, question) ==
    [cls |-> "Text2SQLResponse", success |-> FALSE, query_type |-> query_type,
     query |-> query, message |-> explanation, error |-> None,
     needs_clarification |-> TRUE, clarification_question |-> question,
     sql_query |-> None, query_results |-> NoResults, answer |-> None]

ChatResponse(query, message, answer) ==
    [cls |-> "ChatResponse", success |-> TRUE, query_type |-> "Chat",
     query |-> query, message |-> message, error |-> None,
     needs_clarification |-> FALSE, clarification_question |-> None,
     sql_query |-> None, query_results |-> NoResults, answer |-> answer]

error_response(query_type, query, error) ==
    [cls |-> "AgentResponse", success |-> FALSE, query_type |-> query_type,
     query |-> query, message |-> "Error: " \o error, error |-> error,
     needs_clarification |-> FALSE, clarification_question |-> None,
     sql_query |-> None, query_results |-> NoResults, answer |-> None]

\* ------------------------------------------------------------------
\* Outcomes of the completion backend
\* ------------------------------------------------------------------
NotCalled == [kind |-> "notcalled"]

\* the classifier call: raises, returns None, or returns an object whose
\* attributes may or may not validate as a QueryClassification
ClassifyOutcomes ==
    [kind : {"raise"}, error : Errors]
    \cup {[kind |-> "null"]}
    \cup [kind : {"value"},
          query_type : QueryType \cup {"Report"},
          confidence_score : Confidences \cup {None},
          updated_query : UpdatedQueries]

\* pydantic validation of QueryClassification(**response.__dict__)
ValidClassification(r) ==
    /\ r.query_type \in QueryType
    /\ r.confidence_score # None

QueryClassification(query_type, confidence_score, updated_query) ==
    [query_type |-> query_type, confidence_score |-> confidence_score,
     updated_query |-> updated_query]

default_classification == QueryClassification("Chat", "1.0", None)

NoClassification == QueryClassification(None, None, None)

\* ------------------------------------------------------------------
\* QueryRouter
\* ------------------------------------------------------------------
AttributeError == "'dict' object has no attribute 'role'"

RECURSIVE JoinLines(_)
\* "\n".join([f"{msg.role}: {msg.content}" for msg in chat_history])
JoinLines(msgs) ==
    IF msgs = <<>> THEN ""
    ELSE IF Len(msgs) = 1 THEN msgs[1].role \o ": " \o msgs[1].content
    ELSE msgs[1].role \o ": " \o msgs[1].content \o "\n" \o JoinLines(Tail(msgs))

\* the history block of classify_query, built before its try block: a
\* chat_history entry without a role attribute raises AttributeError
format_history(context) ==
    IF context.kind = "HistoryObject" /\ context.chat_history # <<>>
    THEN IF \E i \in 1..Len(context.chat_history) : context.chat_history[i].form = "dict"
         THEN [raised |-> TRUE, error |-> AttributeError, history |-> ""]
         ELSE [raised |-> FALSE, error |-> None, history |-> JoinLines(context.chat_history)]
    ELSE [raised |-> FALSE, error |-> None, history |-> ""]


\* as classify_completion, but the backend's value is used without validation
classify_completion_unvalidated(out) ==
    IF out.kind \in {"raise", "null"} THEN default_classification
    ELSE QueryClassification(out.query_type, out.confidence_score, out.updated_query)

\* the try block of classify_query, given the outcome of create_completion
classify_completion(out) ==
    IF out.kind = "raise" THEN default_classification
    ELSE IF out.kind = "null" THEN default_classification
    ELSE IF ValidClassification(out)
         THEN QueryClassification(out.query_type, out.confidence_score, out.updated_query)
         ELSE default_classification


\* as effective_query, but the rewritten query is dropped
effective_query_original(classification, query) == query


\* as effective_query, with the operands of `or` swapped
effective_query_swapped(classification, query) ==
    IF Truthy(query) THEN query ELSE classification.updated_query

\* classification.updated_query or query
effective_query(classification, query) ==
    IF Truthy(classification.updated_query) THEN classification.updated_query ELSE query


\* as select_handler, but the else branch goes to the visualization agent
select_handler_no_chat(classification) ==
    IF classification.query_type = "Text2SQL" THEN "Text2SQL" ELSE "Visualization"

\* as select_handler, but a classification the model is not sure of is
\* answered by the chat agent
select_handler_confident(classification) ==
    IF classification.confidence_score # "1.0" THEN "Chat"
    ELSE IF classification.query_type = "Text2SQL" THEN "Text2SQL"
    ELSE IF classification.query_type = "Visualization" THEN "Visualization"
    ELSE "Chat"

\* the if / elif / else dispatch of route_query
select_handler(classification) ==
    IF classification.query_type = "Text2SQL" THEN "Text2SQL"
    ELSE IF classification.query_type = "Visualization" THEN "Visualization"
    ELSE "Chat"

\* ------------------------------------------------------------------
\* Text2SQLAgent
\* ------------------------------------------------------------------
VerificationResult(validation_status, explanation, clarification_question) ==
    [validation_status |-> validation_status, explanation |-> explanation,
     clarification_question |-> clarification_question]

NoVerification == VerificationResult(None, None, None)

\* _verify_query's collaborators: DatabaseConnector() / get_text2sql_context
\* raises, create_completion raises, returns None or a VerificationResult
VerifyOutcomes ==
    [kind : {"schema_raise", "raise"}, error : Errors]
    \cup {[kind |-> "null"]}
    \cup [kind : {"value"}, validation_status : QueryValidationType,
          explanation : Explanations, clarification_question : Questions]


\* as verify_query, but a failed verification lets the query through
verify_query_fail_open(out) ==
    IF out.kind \in {"schema_raise", "raise"}
    THEN VerificationResult("valid", "Error during verification: " \o out.error, None)
    ELSE IF out.kind = "null"
    THEN VerificationResult("valid", "Failed to verify query", None)
    ELSE VerificationResult(out.validation_status, out.explanation, out.clarification_question)

verify_query(out) ==
    IF out.kind \in {"schema_raise", "raise"}
    THEN VerificationResult("invalid", "Error during verification: " \o out.error, None)
    ELSE IF out.kind = "null"
    THEN VerificationResult("invalid", "Failed to verify query", None)
    ELSE VerificationResult(out.validation_status, out.explanation, out.clarification_question)

DefaultQuestion == "Could you please provide more specific details for your query?"

SchemaError == "The query cannot be answered with the available database schema"


\* as verification_response, but an invalid verdict carries no error
verification_response_no_error(query, verification) ==
    IF verification.validation_status = "invalid"
    THEN Text2SQLResponse(FALSE, query, verification.explanation, None, None, NoResults)
    ELSE clarification_response("Text2SQL", query, verification.explanation,
            IF Truthy(verification.clarification_question)
            THEN verification.clarification_question ELSE DefaultQuestion)

\* as verification_response, but without the fallback question
verification_response_no_default(query, verification) ==
    IF verification.validation_status = "invalid"
    THEN Text2SQLResponse(FALSE, query, verification.explanation, SchemaError, None, NoResults)
    ELSE clarification_response("Text2SQL", query, verification.explanation,
                                verification.clarification_question)

\* process_query, step 2: the response of a verification that ends the
\* pipeline (the caller continues to step 3 when the status is valid)
verification_response(query, verification) ==
    IF verification.validation_status = "invalid"
    THEN Text2SQLResponse(FALSE, query, verification.explanation, SchemaError, None, NoResults)
    ELSE clarification_response("Text2SQL", query, verification.explanation,
            IF Truthy(verification.clarification_question)
            THEN verification.clarification_question ELSE DefaultQuestion)

SQLQuery(reasoning, sql_query, explanation) ==
    [reasoning |-> reasoning, sql_query |-> sql_query, explanation |-> explanation]

NoSQLQuery == SQLQuery(None, None, None)

GenerateOutcomes ==
    [kind : {"schema_raise", "raise"}, error : Errors]
    \cup {[kind |-> "null"]}
    \cup [kind : {"value"}, reasoning : {"because"}, sql_query : Sqls, explanation : Explanations]


\* as generate_sql, but without the check for an empty result
generate_sql_unchecked(out) ==
    IF out.kind \in {"schema_raise", "raise"}
    THEN [raised |-> TRUE, error |-> "Failed to generate SQL: " \o out.error, value |-> NoSQLQuery]
    ELSE IF out.kind = "null"
    THEN [raised |-> FALSE, error |-> None, value |-> NoSQLQuery]
    ELSE [raised |-> FALSE, error |-> None,
          value |-> SQLQuery(out.reasoning, out.sql_query, out.explanation)]

\* _generate_sql: every failure leaves as ValueError("Failed to generate SQL: ...")
generate_sql(out) ==
    IF out.kind \in {"schema_raise", "raise"}
    THEN [raised |-> TRUE, error |-> "Failed to generate SQL: " \o out.error, value |-> NoSQLQuery]
    ELSE IF out.kind = "null"
    THEN [raised |-> TRUE,
          error |-> "Failed to generate SQL: SQL generation failed: empty response from language model",
          value |-> NoSQLQuery]
    ELSE [raised |-> FALSE, error |-> None,
          value |-> SQLQuery(out.reasoning, out.sql_query, out.explanation)]

\* process_query, the except branch
exception_response(query, error) ==
    Text2SQLResponse(FALSE, query, "Error processing Text2SQL query", error, None, NoResults)


\* as execution_response, but the database error is copied into the
\* response while success stays true
execution_response_with_error(query, sql_query, query_results) ==
    Text2SQLResponse(TRUE, query, sql_query.explanation,
                     IF "error" \in DOMAIN query_results THEN query_results.error ELSE None,
                     sql_query.sql_query, query_results)

\* process_query, step 3 after execution
execution_response(query, sql_query, query_results) ==
    Text2SQLResponse(TRUE, query, sql_query.explanation, None, sql_query.sql_query, query_results)

\* ------------------------------------------------------------------
\* DatabaseConnector.execute_query
\* ------------------------------------------------------------------
\* what the database does with a statement: returns a cursor with rows,
\* a cursor without rows, or fails
DbOutcomes ==
    UNION {[kind : {"rows"}, columns : {cols},
            data : BoundedSeq([1..Len(cols) -> CellValues], MaxRows)] : cols \in ColumnLists}
    \cup [kind : {"rowcount"}, rowcount : {0, 1}]
    \cup [kind : {"error"}, error : {"relation does not exist", "statement timeout"}]

\* dict(zip(columns, row)): a later duplicate of a column name wins
zip_row(columns, row) ==
    [c \in {columns[j] : j \in 1..Len(columns)} |->
        row[CHOOSE j \in 1..Len(columns) :
                /\ columns[j] = c
                /\ \A k \in 1..Len(columns) : columns[k] = c => k <= j]]


\* as execute_query, but the rows come back in reverse order
execute_query_reversed(query, db) ==
    IF db.kind = "rows"
    THEN [success |-> TRUE, columns |-> db.columns,
          rows |-> [i \in 1..Len(db.data) |->
                      zip_row(db.columns, db.data[Len(db.data) + 1 - i])],
          row_count |-> Len(db.data), query |-> query]
    ELSE IF db.kind = "rowcount"
    THEN [success |-> TRUE, row_count |-> db.rowcount, query |-> query]
    ELSE [success |-> FALSE, error |-> db.error, query |-> query]


\* as execute_query, but a failure also reports an empty row list
execute_query_error_rows(query, db) ==
    IF db.kind = "rows"
    THEN [success |-> TRUE, columns |-> db.columns,
          rows |-> [i \in 1..Len(db.data) |-> zip_row(db.columns, db.data[i])],
          row_count |-> Len(db.data), query |-> query]
    ELSE IF db.kind = "rowcount"
    THEN [success |-> TRUE, row_count |-> db.rowcount, query |-> query]
    ELSE [success |-> FALSE, error |-> db.error, rows |-> <<>>, row_count |-> 0,
          query |-> query]

execute_query(query, db) ==
    IF db.kind = "rows"
    THEN [success |-> TRUE, columns |-> db.columns,
          rows |-> [i \in 1..Len(db.data) |-> zip_row(db.columns, db.data[i])],
          row_count |-> Len(db.data), query |-> query]
    ELSE IF db.kind = "rowcount"
    THEN [success |-> TRUE, row_count |-> db.rowcount, query |-> query]
    ELSE [success |-> FALSE, error |-> db.error, query |-> query]

\* ------------------------------------------------------------------
\* ChatAgent and VisualizationAgent
\* ------------------------------------------------------------------
ChatOutcomes ==
    [kind : {"raise"}, error : Errors]
    \cup {[kind |-> "null"]}
    \cup [kind : {"value"}, text : Answers]


\* as Chat_process_query, but the responses do not echo the query
Chat_process_query_no_echo(query, out) ==
    IF out.kind = "raise" THEN error_response("Chat", None, out.error)
    ELSE ChatResponse(None, "Chat query processed successfully.",
                      IF out.kind = "null" THEN "" ELSE out.text)

\* as Chat_process_query, but a failed completion is answered with an
\* empty text
Chat_process_query_swallow(query, out) ==
    ChatResponse(query, "Chat query processed successfully.",
                 IF out.kind = "value" THEN out.text ELSE "")

Chat_process_query(query, out) ==
    IF out.kind = "raise" THEN error_response("Chat", query, out.error)
    ELSE ChatResponse(query, "Chat query processed successfully.",
                      IF out.kind = "null" THEN "" ELSE out.text)


\* as Visualization_process_query, but reporting a created visualization
Visualization_process_query_mock(query) ==
    [error_response("Visualization", query, "Not implemented")
        EXCEPT !.success = TRUE, !.error = None,
               !.message = "Visualization created successfully."]

Visualization_process_query(query) ==
    error_response("Visualization", query, "Not implemented")


\* ------------------------------------------------------------------
\* display_response (ui/streamlit_app.py): the "Interpreted Query" box is
\* shown when the response's query differs from the prompt the user typed
\* ------------------------------------------------------------------
display_interpreted(resp, prompt) ==
    Truthy(resp.query) /\ resp.query # prompt

\* as handler_context, but the visualization handler records the exchange
\* in a context that has add_message
handler_context_appending(agent, query, context) ==
    IF agent = "Visualization" /\ context.kind = "Context"
    THEN add_message(add_message(context, "user", query, None),
                     "assistant", "I've created a bar chart based on your query", None)
    ELSE context

\* the context after process_query(query, context) of an agent: none of
\* the three handlers reads or writes its context argument
handler_context(agent, query, context) == context

\* ------------------------------------------------------------------
\* Settings and construction of the router
\* ------------------------------------------------------------------
\* the ALLOW_MANIPULATION environment variable: unset, or a string
EnvValues == {None, "", "False", "True"}

\* bool(os.getenv("ALLOW_MANIPULATION", "False")): true of every
\* non-empty string
allow_manipulation_setting(env) == (IF env = None THEN "False" ELSE env) # ""

\* DEFAULT_LLM_PROVIDER
Providers == {"openai", "gigachat", "llama"}

\* LLMFactory._initialize_llm: TRUE when a client is returned, FALSE when
\* ValueError("Provider ... not supported") is raised
initialize_llm(provider) == provider \in {"openai", "gigachat"}


\* as initialize_connector, but nothing connects before the first query
initialize_connector_lazy(db_reachable) == TRUE

\* DatabaseConnector._initialize: MetaData.reflect(bind=engine) connects,
\* and raises when the database cannot be reached
initialize_connector(db_reachable) == db_reachable

\* QueryRouter.__init__: LLMFactory, ChatAgent, Text2SQLAgent (LLMFactory
\* and DatabaseConnector), VisualizationAgent; no exception is caught
construct_router(provider, db_reachable) ==
    initialize_llm(provider) /\ initialize_connector(db_reachable)

\* ------------------------------------------------------------------
\* State of the router and of one route_query call
\* ------------------------------------------------------------------
VARIABLES
    provider,           \* settings.default_llm_provider
    db_reachable,       \* whether the database answers at construction
    allow_manipulation, \* settings.allow_manipulation
    pc,              \* position of the call
    query,           \* the query given to route_query
    context,         \* the context given to route_query
    history,         \* the history block given to the classifier prompt
    classify_out,    \* outcome of the classifier's completion call
    classification,  \* what classify_query returned
    handler,         \* the agent whose process_query was called
    handler_query,   \* the query string process_query received
    verify_out,      \* outcome of the verification collaborators
    verification,    \* what _verify_query returned
    generate_out,    \* outcome of the generation collaborators
    generated,       \* the SQLQuery _generate_sql returned
    db_out,          \* what the database did with the statement
    executed,        \* the statements passed to execute_query, in order
    results,         \* what execute_query returned
    chat_out,        \* outcome of the chat completion call
    response,        \* the response route_query returned
    raised,          \* the exception route_query raised, or None
    calls,           \* how often each step of the call was entered
    st_messages,     \* st.session_state.messages of the chat page
    session_context, \* st.session_state.context, a Context
    engine,          \* DatabaseConnector._engine: "live" or None
    conn_result,     \* what the last call on the connector returned or raised
    conversation,    \* what get_conversation_history last returned
    schema,          \* the tables of the connected database
    contexts,        \* what the calls of get_text2sql_context returned
    pair             \* two classifications and the outcomes they meet

envVars == <<provider, db_reachable, allow_manipulation>>

\* the state outside route_query: the chat page, a connector used
\* directly, the schema provider and the paired runs
outsideVars == <<st_messages, session_context, engine, conn_result,
                 conversation, schema, contexts, pair>>

vars == <<provider, db_reachable, allow_manipulation, pc, query, context, history, classify_out, classification, handler,
          handler_query, verify_out, verification, generate_out, generated,
          db_out, executed, results, chat_out, response, raised, calls,
          st_messages, session_context, engine, conn_result, conversation,
          schema, contexts, pair>>

callVars == <<history, classify_out, classification, handler, handler_query,
              verify_out, verification, generate_out, generated, db_out,
              executed, results, chat_out, response, raised, calls>>

NoCalls == [classify |-> 0, process_query |-> 0, verify |-> 0, generate |-> 0, execute |-> 0]

NoConnResult == [op |-> "none"]

NoPair == [kind |-> "none"]

NoConversation == [called |-> FALSE]

\* a call has not started: nothing of route_query's state is set
CallInit ==
    /\ query = None
    /\ context = NoContext
    /\ history = ""
    /\ classify_out = NotCalled
    /\ classification = NoClassification
    /\ handler = None
    /\ handler_query = None
    /\ verify_out = NotCalled
    /\ verification = NoVerification
    /\ generate_out = NotCalled
    /\ generated = NoSQLQuery
    /\ db_out = NotCalled
    /\ executed = <<>>
    /\ results = NoResults
    /\ chat_out = NotCalled
    /\ response = NoResponse
    /\ raised = None
    /\ calls = NoCalls

\* nothing outside route_query has happened
OutsideInit ==
    /\ st_messages = <<>>
    /\ session_context = Context(<<>>)
    /\ engine = "live"
    /\ conn_result = NoConnResult
    /\ conversation = NoConversation
    /\ schema = <<>>
    /\ contexts = <<>>
    /\ pair = NoPair

Init ==
    /\ provider \in Providers
    /\ db_reachable \in BOOLEAN
    /\ \E env \in EnvValues : allow_manipulation = allow_manipulation_setting(env)
    /\ pc = "new"
    /\ CallInit
    /\ OutsideInit

\* router = QueryRouter(): a failed construction ends the program
Construct ==
    /\ pc = "new"
    /\ pc' = IF construct_router(provider, db_reachable) THEN "idle" ELSE "failed"
    /\ UNCHANGED <<envVars, outsideVars, query, context, callVars>>

\* the caller calls route_query(q, ctx)
RouteQuery(q, ctx) ==
    /\ pc = "idle"
    /\ UNCHANGED <<envVars, outsideVars>>
    /\ pc' = "classify"
    /\ query' = q
    /\ context' = ctx
    /\ UNCHANGED callVars

\* route_query up to the call of the handler: classify_query (history
\* block, completion call, fallback), effective query and dispatch
ClassifyQuery(out) ==
    /\ pc = "classify"
    /\ UNCHANGED <<envVars, outsideVars>>
    /\ LET h == format_history(context) IN
       IF h.raised
       THEN /\ pc' = "raised"
            /\ raised' = h.error
            /\ calls' = [calls EXCEPT !.classify = @ + 1]
            /\ UNCHANGED <<history, classify_out, classification, handler, handler_query>>
       ELSE LET c == classify_completion(out) IN
            /\ history' = h.history
            /\ classify_out' = out
            /\ classification' = c
            /\ handler' = select_handler(c)
            /\ handler_query' = effective_query(c, query)
            /\ pc' = CASE select_handler(c) = "Text2SQL" -> "verify"
                       [] select_handler(c) = "Visualization" -> "visualization"
                       [] OTHER -> "chat"
            /\ calls' = [calls EXCEPT !.classify = @ + 1, !.process_query = @ + 1]
            /\ UNCHANGED raised
    /\ UNCHANGED <<query, context, verify_out, verification, generate_out, generated,
                   db_out, executed, results, chat_out, response>>

\* as continues_to_generation, but only an invalid query stops the
\* pipeline: a query needing clarification goes on to generation
continues_to_generation_unless_invalid(v) == v.validation_status # "invalid"

\* Text2SQLAgent.process_query: neither of the two early returns is taken
continues_to_generation(v) ==
    /\ v.validation_status # "invalid"
    /\ v.validation_status # "requires_clarification"

\* Text2SQLAgent.process_query, steps 1 and 2
VerifyQuery(out) ==
    /\ pc = "verify"
    /\ UNCHANGED <<envVars, outsideVars>>
    /\ context' = handler_context(handler, handler_query, context)
    /\ verify_out' = out
    /\ calls' = [calls EXCEPT !.verify = @ + 1]
    /\ LET v == verify_query(out) IN
       /\ verification' = v
       /\ IF continues_to_generation(v)
          THEN pc' = "generate" /\ UNCHANGED response
          ELSE pc' = "returned" /\ response' = verification_response(handler_query, v)
    /\ UNCHANGED <<query, history, classify_out, classification, handler,
                   handler_query, generate_out, generated, db_out, executed,
                   results, chat_out, raised>>

\* Text2SQLAgent.process_query, step 3: _generate_sql
GenerateSQL(out) ==
    /\ pc = "generate"
    /\ UNCHANGED <<envVars, outsideVars>>
    /\ generate_out' = out
    /\ calls' = [calls EXCEPT !.generate = @ + 1]
    /\ LET g == generate_sql(out) IN
       IF g.raised
       THEN /\ pc' = "returned"
            /\ response' = exception_response(handler_query, g.error)
            /\ UNCHANGED generated
       ELSE /\ pc' = "execute"
            /\ generated' = g.value
            /\ UNCHANGED response
    /\ UNCHANGED <<query, context, history, classify_out, classification, handler,
                   handler_query, verify_out, verification, db_out, executed,
                   results, chat_out, raised>>

\* Text2SQLAgent.process_query, step 3: execute_query and the response
ExecuteQuery(db) ==
    /\ pc = "execute"
    /\ UNCHANGED <<envVars, outsideVars>>
    /\ db_out' = db
    /\ calls' = [calls EXCEPT !.execute = @ + 1]
    /\ executed' = Append(executed, generated.sql_query)
    /\ LET r == execute_query(generated.sql_query, db) IN
       /\ results' = r
       /\ response' = execution_response(handler_query, generated, r)
    /\ pc' = "returned"
    /\ UNCHANGED <<query, context, history, classify_out, classification, handler,
                   handler_query, verify_out, verification, generate_out, generated,
                   chat_out, raised>>

\* ChatAgent.process_query
ChatQuery(out) ==
    /\ pc = "chat"
    /\ UNCHANGED <<envVars, outsideVars>>
    /\ context' = handler_context(handler, handler_query, context)
    /\ chat_out' = out
    /\ response' = Chat_process_query(handler_query, out)
    /\ pc' = "returned"
    /\ UNCHANGED <<query, history, classify_out, classification, handler,
                   handler_query, verify_out, verification, generate_out, generated,
                   db_out, executed, results, raised, calls>>

\* VisualizationAgent.process_query
VisualizationQuery ==
    /\ pc = "visualization"
    /\ UNCHANGED <<envVars, outsideVars>>
    /\ context' = handler_context(handler, handler_query, context)
    /\ response' = Visualization_process_query(handler_query)
    /\ pc' = "returned"
    /\ UNCHANGED <<query, history, classify_out, classification, handler,
                   handler_query, verify_out, verification, generate_out, generated,
                   db_out, executed, results, chat_out, raised, calls>>

\* route_query has returned or raised; the caller goes on to the next call
NextCall ==
    /\ pc \in {"returned", "raised"}
    /\ UNCHANGED <<envVars, outsideVars>>
    /\ pc' = "idle"
    /\ query' = None
    /\ context' = NoContext
    /\ history' = ""
    /\ classify_out' = NotCalled
    /\ classification' = NoClassification
    /\ handler' = None
    /\ handler_query' = None
    /\ verify_out' = NotCalled
    /\ verification' = NoVerification
    /\ generate_out' = NotCalled
    /\ generated' = NoSQLQuery
    /\ db_out' = NotCalled
    /\ executed' = <<>>
    /\ results' = NoResults
    /\ chat_out' = NotCalled
    /\ response' = NoResponse
    /\ raised' = None
    /\ calls' = NoCalls

Next ==
    \/ Construct
    \/ \E q \in Queries, ctx \in Contexts : RouteQuery(q, ctx)
    \/ \E out \in ClassifyOutcomes : ClassifyQuery(out)
    \/ \E out \in VerifyOutcomes : VerifyQuery(out)
    \/ \E out \in GenerateOutcomes : GenerateSQL(out)
    \/ \E db \in DbOutcomes : ExecuteQuery(db)
    \/ \E out \in ChatOutcomes : ChatQuery(out)
    \/ VisualizationQuery
    \/ NextCall

Spec == Init /\ [][Next]_vars

TypeOK ==
    /\ pc \in {"new", "failed", "idle", "classify", "verify", "generate", "execute", "chat",
               "visualization", "returned", "raised"}
    /\ handler \in QueryType \cup {None}

\* ------------------------------------------------------------------
\* The connector used directly: close, execute_query, test_connection
\* ------------------------------------------------------------------
MaxMessages == 2

MaxWindow == 3

routerVars == <<provider, db_reachable, allow_manipulation, pc, query, context, callVars>>

\* a constructed router that is between two calls
RouterAtRest ==
    /\ provider = "openai"
    /\ db_reachable = TRUE
    /\ allow_manipulation = FALSE
    /\ pc = "idle"
    /\ CallInit

\* None.connect(): what Python raises when _engine is None
NoneTypeError == "'NoneType' object has no attribute 'connect'"

\* DatabaseConnector.close: the engine is disposed and forgotten
close(eng) == None

\* as execute_query_on, but like test_connection only the driver's own
\* errors are caught, so a disposed engine raises
execute_query_on_uncaught(eng, q, db) ==
    IF eng = None
    THEN [raised |-> TRUE, error |-> NoneTypeError]
    ELSE [raised |-> FALSE, value |-> execute_query(q, db)]

\* DatabaseConnector.execute_query in a given connector state: with no
\* engine, self._engine.connect() raises inside the try block and the
\* except Exception clause turns it into a failure result
execute_query_on(eng, q, db) ==
    IF eng = None
    THEN [raised |-> FALSE,
          value |-> [success |-> FALSE, error |-> NoneTypeError, query |-> q]]
    ELSE [raised |-> FALSE, value |-> execute_query(q, db)]

\* DatabaseConnector.test_connection: SELECT 1 works or fails with an
\* SQLAlchemyError, which is caught; the AttributeError of a missing
\* engine is not an SQLAlchemyError and propagates
test_connection(eng, works) ==
    IF eng = None
    THEN [raised |-> TRUE, error |-> NoneTypeError]
    ELSE [raised |-> FALSE, value |-> works]

InitConnector ==
    /\ RouterAtRest
    /\ OutsideInit

ConnClose ==
    /\ engine' = close(engine)
    /\ conn_result' = [op |-> "close", engine |-> engine, raised |-> FALSE]
    /\ UNCHANGED <<routerVars, st_messages, session_context, conversation,
                   schema, contexts, pair>>

ConnExecuteQuery(q, db) ==
    /\ (engine = None) <=> (db = NotCalled)
    /\ conn_result' = [op |-> "execute_query", engine |-> engine, query |-> q,
                       db |-> db] @@ execute_query_on(engine, q, db)
    /\ UNCHANGED <<routerVars, engine, st_messages, session_context, conversation,
                   schema, contexts, pair>>

ConnTestConnection(works) ==
    /\ engine = None => works = FALSE
    /\ conn_result' = [op |-> "test_connection", engine |-> engine, works |-> works]
                          @@ test_connection(engine, works)
    /\ UNCHANGED <<routerVars, engine, st_messages, session_context, conversation,
                   schema, contexts, pair>>

NextConnector ==
    \/ ConnClose
    \/ \E q \in Sqls, db \in DbOutcomes \cup {NotCalled} : ConnExecuteQuery(q, db)
    \/ \E works \in BOOLEAN : ConnTestConnection(works)

SpecConnector == InitConnector /\ [][NextConnector]_vars

\* ------------------------------------------------------------------
\* The Context used directly: add_message, get_conversation_history
\* ------------------------------------------------------------------
SessionMessages ==
    [form : {"dict"}, role : {"user", "assistant"}, content : {"hi"},
     query_type : QueryType \cup {None}]

\* Python's list[-n:] for n >= 0: -0 is 0, so the slice starts at the
\* front; otherwise it starts n from the end, or at the front when the
\* list is shorter
slice_from_minus(messages, n) ==
    IF n = 0 \/ n >= Len(messages)
    THEN messages
    ELSE SubSeq(messages, Len(messages) - n + 1, Len(messages))

\* Context.get_conversation_history
get_conversation_history(ctx, max_messages) ==
    slice_from_minus(ctx.messages, max_messages)

InitContext ==
    /\ RouterAtRest
    /\ OutsideInit

CtxAddMessage(role, content, query_type) ==
    /\ Len(session_context.messages) < MaxMessages
    /\ session_context' = add_message(session_context, role, content, query_type)
    /\ UNCHANGED <<routerVars, st_messages, engine, conn_result, conversation,
                   schema, contexts, pair>>

CtxGetConversationHistory(max_messages) ==
    /\ conversation' = [called |-> TRUE, max_messages |-> max_messages,
                        before |-> session_context.messages,
                        value |-> get_conversation_history(session_context, max_messages)]
    /\ UNCHANGED <<routerVars, st_messages, session_context, engine, conn_result,
                   schema, contexts, pair>>

NextContext ==
    \/ \E m \in SessionMessages : CtxAddMessage(m.role, m.content, m.query_type)
    \/ \E n \in 0..MaxWindow : CtxGetConversationHistory(n)

SpecContext == InitContext /\ [][NextContext]_vars

\* ------------------------------------------------------------------
\* The chat page: one prompt after the other through route_query, with
\* st.session_state.messages and st.session_state.context
\* ------------------------------------------------------------------
MaxPrompts == 2

\* the collaborator outcomes the session is explored with
SessionClassifyOutcomes ==
    {o \in ClassifyOutcomes :
        o.kind = "value" => /\ o.query_type \in QueryType
                            /\ o.confidence_score = "0.95"
                            /\ o.updated_query = None}

SessionVerifyOutcomes ==
    {o \in VerifyOutcomes : o.kind = "value" /\ o.clarification_question = "Which table?"}

SessionGenerateOutcomes ==
    {o \in GenerateOutcomes :
        o.kind = "null" \/ (o.kind = "value" /\ o.sql_query = "SELECT * FROM customers;")}

SessionDbOutcomes ==
    {o \in DbOutcomes :
        \/ o.kind = "error" /\ o.error = "statement timeout"
        \/ o.kind = "rows" /\ o.columns = <<"id">> /\ o.data = <<>>}

\* st.error and the other widget calls of display_response can fail
DisplayError == "display failed"

user_entry(prompt) == [role |-> "user", kind |-> "text", content |-> prompt]

response_entry(resp) == [role |-> "assistant", kind |-> "response", content |-> resp]

error_entry(e) == [role |-> "assistant", kind |-> "text", content |-> "Error: " \o e]

\* as record_exchange, but the assistant's reply is recorded too
record_exchange_with_reply(ctx, prompt, resp) ==
    add_message(add_message(ctx, "user", prompt, resp.query_type),
                "assistant", resp.message, resp.query_type)

\* main: st.session_state.context.add_message("user", prompt, response.query_type)
record_exchange(ctx, prompt, resp) ==
    add_message(ctx, "user", prompt, resp.query_type)

InitSession ==
    /\ RouterAtRest
    /\ OutsideInit

\* a prompt is entered: it is appended to the displayed messages and
\* route_query is called with the session's context object
SessionSubmit(prompt) ==
    /\ pc = "idle"
    /\ Len(st_messages) < 2 * MaxPrompts
    /\ st_messages' = Append(st_messages, user_entry(prompt))
    /\ pc' = "classify"
    /\ query' = prompt
    /\ context' = session_context
    /\ UNCHANGED <<envVars, callVars, session_context, engine, conn_result,
                   conversation, schema, contexts, pair>>

\* the rest of the try block and the except block of main: the response
\* is displayed and recorded, or the error text is
SessionFinish(displayed) ==
    /\ pc \in {"returned", "raised"}
    /\ pc' = "idle"
    /\ IF pc = "returned" /\ displayed
       THEN /\ st_messages' = Append(st_messages, response_entry(response))
            /\ session_context' = record_exchange(context, query, response)
       ELSE /\ st_messages' = Append(st_messages,
                 error_entry(IF pc = "raised" THEN raised ELSE DisplayError))
            /\ session_context' = context
    /\ query' = None
    /\ context' = NoContext
    /\ history' = ""
    /\ classify_out' = NotCalled
    /\ classification' = NoClassification
    /\ handler' = None
    /\ handler_query' = None
    /\ verify_out' = NotCalled
    /\ verification' = NoVerification
    /\ generate_out' = NotCalled
    /\ generated' = NoSQLQuery
    /\ db_out' = NotCalled
    /\ executed' = <<>>
    /\ results' = NoResults
    /\ chat_out' = NotCalled
    /\ response' = NoResponse
    /\ raised' = None
    /\ calls' = NoCalls
    /\ UNCHANGED <<envVars, engine, conn_result, conversation, schema, contexts, pair>>

NextSession ==
    \/ \E prompt \in Queries : SessionSubmit(prompt)
    \/ \E out \in SessionClassifyOutcomes : ClassifyQuery(out)
    \/ \E out \in SessionVerifyOutcomes : VerifyQuery(out)
    \/ \E out \in SessionGenerateOutcomes : GenerateSQL(out)
    \/ \E db \in SessionDbOutcomes : ExecuteQuery(db)
    \/ \E out \in ChatOutcomes : ChatQuery(out)
    \/ VisualizationQuery
    \/ \E displayed \in BOOLEAN : SessionFinish(displayed)

SpecSession == InitSession /\ [][NextSession]_vars

\* ------------------------------------------------------------------
\* route_query as one function of its inputs and of what its
\* collaborators answer, and two runs of it side by side
\* ------------------------------------------------------------------
\* Text2SQLAgent.process_query
Text2SQL_process_query(q, v_out, g_out, db) ==
    LET v == verify_query(v_out) IN
    IF ~continues_to_generation(v)
    THEN verification_response(q, v)
    ELSE LET g == generate_sql(g_out) IN
         IF g.raised
         THEN exception_response(q, g.error)
         ELSE execution_response(q, g.value, execute_query(g.value.sql_query, db))

\* QueryRouter.route_query
route_query(q, ctx, c_out, v_out, g_out, db, ch_out) ==
    LET h == format_history(ctx) IN
    IF h.raised
    THEN [raised |-> h.error, classification |-> NoClassification, handler |-> None,
          handler_query |-> None, response |-> NoResponse]
    ELSE LET c == classify_completion(c_out)
             agent == select_handler(c)
             effective == effective_query(c, q)
         IN  [raised |-> None, classification |-> c, handler |-> agent,
              handler_query |-> effective,
              response |-> CASE agent = "Text2SQL" ->
                                   Text2SQL_process_query(effective, v_out, g_out, db)
                             [] agent = "Visualization" ->
                                   Visualization_process_query(effective)
                             [] OTHER -> Chat_process_query(effective, ch_out)]

\* the contexts the two runs are explored with
PairContexts == {NoContext, Context(<<>>)}

InitPair ==
    /\ RouterAtRest
    /\ OutsideInit

\* the query, the context and what every collaborator but the classifier
\* answers are fixed for both runs
PairInputs(q, ctx, v_out, g_out, db, ch_out) ==
    /\ pair = NoPair
    /\ pair' = [kind |-> "inputs", query |-> q, context |-> ctx, verify_out |-> v_out,
                generate_out |-> g_out, db_out |-> db, chat_out |-> ch_out]
    /\ UNCHANGED <<routerVars, st_messages, session_context, engine, conn_result,
                   conversation, schema, contexts>>

\* two calls of route_query on these inputs, the classifier answering c1
\* in the first and c2 in the second
PairRuns(c1, c2) ==
    /\ pair.kind = "inputs"
    /\ pair' = [kind |-> "pair", c1 |-> c1, c2 |-> c2,
                first |-> route_query(pair.query, pair.context, c1, pair.verify_out,
                                      pair.generate_out, pair.db_out, pair.chat_out),
                second |-> route_query(pair.query, pair.context, c2, pair.verify_out,
                                       pair.generate_out, pair.db_out, pair.chat_out)]
    /\ UNCHANGED <<routerVars, st_messages, session_context, engine, conn_result,
                   conversation, schema, contexts>>

NextPair ==
    \/ \E q \in Queries, ctx \in PairContexts, v_out \in SessionVerifyOutcomes,
          g_out \in SessionGenerateOutcomes, db \in SessionDbOutcomes,
          ch_out \in ChatOutcomes :
           PairInputs(q, ctx, v_out, g_out, db, ch_out)
    \/ \E c1 \in ClassifyOutcomes, c2 \in ClassifyOutcomes : PairRuns(c1, c2)

SpecPair == InitPair /\ [][NextPair]_vars

\* ------------------------------------------------------------------
\* The schema provider: get_schema_info and get_text2sql_context over a
\* schema that does not change while the table contents do
\* ------------------------------------------------------------------
MaxTables == 2

MaxContextCalls == 2

\* what the inspector reports for a table
TableDefs ==
    {[name |-> "customers", comment |-> "people who buy", primary_keys |-> {"id"},
      columns |-> <<[name |-> "id", type |-> "INTEGER", nullable |-> FALSE, comment |-> None],
                    [name |-> "name", type |-> "TEXT", nullable |-> TRUE, comment |-> "full name"]>>,
      foreign_keys |-> <<>>],
     [name |-> "orders", comment |-> None, primary_keys |-> {"id"},
      columns |-> <<[name |-> "id", type |-> "INTEGER", nullable |-> FALSE, comment |-> None],
                    [name |-> "customer_id", type |-> "INTEGER", nullable |-> TRUE, comment |-> None]>>,
      foreign_keys |-> <<[constrained_column |-> "customer_id", referred_table |-> "customers",
                          referred_column |-> "id"]>>],
     [name |-> "notes", comment |-> None, primary_keys |-> {},
      columns |-> <<>>, foreign_keys |-> <<>>]}

\* a schema: distinct tables in the order get_table_names lists them,
\* every foreign key pointing at a table of the schema
Schemas ==
    {sch \in BoundedSeq(TableDefs, MaxTables) :
        /\ \A i, j \in 1..Len(sch) : i # j => sch[i].name # sch[j].name
        /\ \A i \in 1..Len(sch) : \A k \in 1..Len(sch[i].foreign_keys) :
              \E j \in 1..Len(sch) : sch[j].name = sch[i].foreign_keys[k].referred_table}

\* what the tables hold at the time of a call: get_sample_data gives the
\* rows or [] when the query fails, get_row_count the count or -1
SampleRows == {<<>>, <<"{'id': 1}">>}

RowCounts == {-1, 2}

TableData == [sample_data : SampleRows, row_count : RowCounts]

\* str() of a small number
IntStr(n) == <<"0", "1", "2", "3", "4", "5", "6", "7", "8", "9">>[n + 1]

RECURSIVE Flatten(_)
Flatten(seqs) ==
    IF seqs = <<>> THEN <<>> ELSE Head(seqs) \o Flatten(Tail(seqs))

\* get_table_relationships: one entry per foreign key, table by table
get_table_relationships(sch) ==
    Flatten([i \in 1..Len(sch) |->
        [k \in 1..Len(sch[i].foreign_keys) |->
            [source_table |-> sch[i].name,
             source_column |-> sch[i].foreign_keys[k].constrained_column,
             target_table |-> sch[i].foreign_keys[k].referred_table,
             target_column |-> sch[i].foreign_keys[k].referred_column]]])

\* get_schema_info: the table_info of one table
table_info(table, data) ==
    [name |-> table.name,
     comment |-> table.comment,
     columns |-> [k \in 1..Len(table.columns) |->
                    [name |-> table.columns[k].name, type |-> table.columns[k].type,
                     nullable |-> table.columns[k].nullable,
                     comment |-> table.columns[k].comment,
                     is_primary_key |-> table.columns[k].name \in table.primary_keys]],
     sample_data |-> data.sample_data,
     row_count |-> data.row_count]

\* get_text2sql_context: the line of one column
column_line(col) ==
    [kind |-> "column", name |-> col.name,
     text |-> "  - " \o col.name \o " (" \o col.type \o ") "
                \o (IF col.is_primary_key THEN "PK" ELSE "") \o " "
                \o (IF col.nullable THEN "NULL" ELSE "NOT NULL")
                \o (IF Truthy(col.comment) THEN " - " \o col.comment ELSE "")]

\* as table_desc, but the columns are listed only for a table that has
\* sample rows
table_desc_of_sampled(info) ==
    <<[kind |-> "table", name |-> info.name, text |-> "Table: " \o info.name]>>
    \o (IF Truthy(info.comment)
        THEN <<[kind |-> "description", name |-> info.name,
                text |-> "Description: " \o info.comment]>>
        ELSE <<>>)
    \o <<[kind |-> "columns", name |-> info.name, text |-> "Columns:"]>>
    \o (IF info.sample_data # <<>>
        THEN [k \in 1..Len(info.columns) |-> column_line(info.columns[k])]
             \o <<[kind |-> "sample_header", name |-> info.name,
                    text |-> "Sample data (" \o IntStr(Len(info.sample_data)) \o " rows):"]>>
             \o [k \in 1..Len(info.sample_data) |->
                   [kind |-> "sample_row", name |-> info.name,
                    text |-> "  " \o info.sample_data[k]]]
        ELSE <<>>)
    \o (IF info.row_count > 0
        THEN <<[kind |-> "total", name |-> info.name,
                text |-> "Total rows: " \o IntStr(info.row_count)]>>
        ELSE <<>>)

\* get_text2sql_context: the lines of one table's description, which the
\* code joins with newlines
table_desc(info) ==
    <<[kind |-> "table", name |-> info.name, text |-> "Table: " \o info.name]>>
    \o (IF Truthy(info.comment)
        THEN <<[kind |-> "description", name |-> info.name,
                text |-> "Description: " \o info.comment]>>
        ELSE <<>>)
    \o <<[kind |-> "columns", name |-> info.name, text |-> "Columns:"]>>
    \o [k \in 1..Len(info.columns) |-> column_line(info.columns[k])]
    \o (IF info.sample_data # <<>>
        THEN <<[kind |-> "sample_header", name |-> info.name,
                text |-> "Sample data (" \o IntStr(Len(info.sample_data)) \o " rows):"]>>
             \o [k \in 1..Len(info.sample_data) |->
                   [kind |-> "sample_row", name |-> info.name,
                    text |-> "  " \o info.sample_data[k]]]
        ELSE <<>>)
    \o (IF info.row_count > 0
        THEN <<[kind |-> "total", name |-> info.name,
                text |-> "Total rows: " \o IntStr(info.row_count)]>>
        ELSE <<>>)

\* DatabaseConnector.get_text2sql_context
get_text2sql_context(sch, data) ==
    [database_name |-> "shop",
     schema_name |-> "public",
     tables |-> [i \in 1..Len(sch) |-> table_desc(table_info(sch[i], data[i]))],
     relationships |-> LET rels == get_table_relationships(sch) IN
         [k \in 1..Len(rels) |->
             rels[k].source_table \o "." \o rels[k].source_column \o " -> "
                 \o rels[k].target_table \o "." \o rels[k].target_column],
     sql_dialect |-> "PostgreSQL"]

InitSchema ==
    /\ RouterAtRest
    /\ st_messages = <<>>
    /\ session_context = Context(<<>>)
    /\ engine = "live"
    /\ conn_result = NoConnResult
    /\ conversation = NoConversation
    /\ schema \in Schemas
    /\ contexts = <<>>
    /\ pair = NoPair

\* one call of get_text2sql_context, the tables holding data at that time
GetText2sqlContext(data) ==
    /\ Len(contexts) < MaxContextCalls
    /\ DOMAIN data = 1..Len(schema)
    /\ contexts' = Append(contexts,
                          [raised |-> FALSE, value |-> get_text2sql_context(schema, data)])
    /\ UNCHANGED <<routerVars, st_messages, session_context, engine, conn_result,
                   conversation, schema, pair>>

\* one call of get_text2sql_context during which an inspector call fails:
\* get_schema_info does not catch it and the call raises
GetText2sqlContextRaises(e) ==
    /\ Len(contexts) < MaxContextCalls
    /\ contexts' = Append(contexts, [raised |-> TRUE, error |-> e])
    /\ UNCHANGED <<routerVars, st_messages, session_context, engine, conn_result,
                   conversation, schema, pair>>

NextSchema ==
    \/ \E data \in BoundedSeq(TableData, MaxTables) : GetText2sqlContext(data)
    \/ \E e \in Errors : GetText2sqlContextRaises(e)

SpecSchema == InitSchema /\ [][NextSchema]_vars

\* ------------------------------------------------------------------
\* Claims
\* ------------------------------------------------------------------

\* C1: when the classifier's completion call raises, returns None, or
\* returns a value that does not validate as a QueryClassification
\* (query_type outside the enum, confidence_score missing),
\* classify_query returns {Chat, 1.0, None} and nothing is raised.
C1_ClassifyFallsBackToDefault ==
    (\/ classify_out.kind \in {"raise", "null"}
     \/ /\ classify_out.kind = "value"
        /\ \/ classify_out.query_type \notin {"Text2SQL", "Visualization", "Chat"}
           \/ classify_out.confidence_score = None)
    => /\ classification = [query_type |-> "Chat", confidence_score |-> "1.0",
                            updated_query |-> None]
       /\ raised = None

C1_Witness ==
    /\ pc = "chat"
    /\ classify_out.kind = "value"
    /\ classify_out.query_type = "Report"
    /\ classify_out.updated_query = "show sales for last month"
    /\ classification.query_type = "Chat"

\* C2: the handler's process_query receives updated_query when the
\* classification carries a non-empty one, and the original query when
\* updated_query is None or empty.
C2_HandlerGetsEffectiveQuery ==
    handler # None =>
        /\ classification.updated_query \notin {None, ""}
              => handler_query = classification.updated_query
        /\ classification.updated_query \in {None, ""}
              => handler_query = query

C2_Witness ==
    /\ handler = "Text2SQL"
    /\ query = "and last month too"
    /\ handler_query = "show sales for last month"

\* C3: a Text2SQL request whose verification result is invalid returns
\* success=false, needs_clarification=false and a non-empty error.
C3_InvalidIsRejected ==
    (pc = "returned" /\ handler = "Text2SQL" /\ verification.validation_status = "invalid")
    => /\ response.success = FALSE
       /\ response.needs_clarification = FALSE
       /\ response.error \notin {None, ""}

C3_Witness ==
    /\ pc = "returned"
    /\ verify_out.kind = "value"
    /\ verify_out.validation_status = "invalid"
    /\ response.error = SchemaError

\* C4: a Text2SQL request whose verification result is
\* requires_clarification returns success=false, needs_clarification=true
\* and a non-empty clarification_question, which is the default question
\* when the verifier's question is None or empty.
C4_ClarificationIsAsked ==
    (pc = "returned" /\ handler = "Text2SQL"
        /\ verification.validation_status = "requires_clarification")
    => /\ response.success = FALSE
       /\ response.needs_clarification = TRUE
       /\ response.clarification_question \notin {None, ""}
       /\ verification.clarification_question \in {None, ""}
            => response.clarification_question =
                 "Could you please provide more specific details for your query?"

C4_Witness ==
    /\ pc = "returned"
    /\ verify_out.kind = "value"
    /\ verify_out.validation_status = "requires_clarification"
    /\ verify_out.clarification_question = ""
    /\ response.clarification_question = DefaultQuestion

\* C5: when verification is valid and the generation call returns None or
\* raises, the response has success=false and needs_clarification=false
\* and execute_query is never called.
C5_GenerationFailureSkipsExecution ==
    (/\ pc \in {"execute", "returned"}
     /\ handler = "Text2SQL"
     /\ verification.validation_status = "valid"
     /\ generate_out.kind \in {"null", "raise", "schema_raise"})
    => /\ pc = "returned"
       /\ response.success = FALSE
       /\ response.needs_clarification = FALSE
       /\ executed = <<>>
       /\ db_out = NotCalled

C5_Witness ==
    /\ pc = "returned"
    /\ verification.validation_status = "valid"
    /\ generate_out.kind = "null"
    /\ response.success = FALSE

\* C6: when verification is valid, generation produced sql_query Q and the
\* database returned rows for Q, the response carries Q unchanged,
\* execute_query was called exactly once, with Q, and
\* query_results.rows holds the database's rows in the database's order,
\* each cell under its column.
C6_RoundTrip ==
    (/\ pc = "returned"
     /\ handler = "Text2SQL"
     /\ verification.validation_status = "valid"
     /\ generate_out.kind = "value"
     /\ db_out.kind = "rows")
    => /\ response.sql_query = generate_out.sql_query
       /\ executed = <<generate_out.sql_query>>
       /\ "rows" \in DOMAIN response.query_results
       /\ LET R == response.query_results.rows IN
          /\ Len(R) = Len(db_out.data)
          /\ \A i \in 1..Len(db_out.data) :
                /\ DOMAIN R[i] = {db_out.columns[j] : j \in 1..Len(db_out.columns)}
                /\ \A j \in 1..Len(db_out.columns) :
                      R[i][db_out.columns[j]] = db_out.data[i][j]

C6_Witness ==
    /\ pc = "returned"
    /\ db_out.kind = "rows"
    /\ Len(db_out.data) = 2
    /\ db_out.data[1] # db_out.data[2]
    /\ Len(db_out.columns) = 2
    /\ response.sql_query = "SELECT * FROM customers;"
    /\ Len(response.query_results.rows) = 2

\* C7: a Text2SQL request whose SQL execution fails returns success=false
\* with the database error message in the response's error field.
C7_ExecutionFailureIsFailure ==
    (pc = "returned" /\ handler = "Text2SQL" /\ db_out.kind = "error")
    => /\ response.success = FALSE
       /\ response.error = db_out.error

\* C8: route_query never raises, for any query, any context and any
\* outcome of its collaborators.
C8_RouteQueryNeverRaises ==
    pc # "raised" /\ raised = None

\* C9: when the schema fetch or the verification call raises, or the
\* verification call returns None, _verify_query returns invalid and the
\* pipeline ends there: no generation call, no execute_query.
C9_VerificationFailsClosed ==
    verify_out.kind \in {"schema_raise", "raise", "null"}
    => /\ verification.validation_status = "invalid"
       /\ pc = "returned"
       /\ generate_out = NotCalled
       /\ db_out = NotCalled
       /\ executed = <<>>

C9_Witness ==
    /\ pc = "returned"
    /\ verify_out.kind = "schema_raise"
    /\ response.message = "Error during verification: timeout"

C11_ResponseInvariant ==
    pc = "returned" =>
        /\ response.needs_clarification
              => /\ response.success = FALSE
                 /\ response.clarification_question \notin {None, ""}
        /\ response.success
              => /\ response.error = None
                 /\ response.clarification_question = None

C11_Witness ==
    /\ pc = "returned"
    /\ response.needs_clarification
    /\ verify_out.kind = "value"
    /\ verify_out.clarification_question = None
    /\ response.success = FALSE

\* the statements of Sqls that are not read-only
ManipulatingSqls == {"DELETE FROM customers"}

\* C12: with allow_manipulation false, no statement that is not read-only
\* is passed to execute_query.
C12_ReadOnlyPolicyEnforced ==
    allow_manipulation = FALSE
    => \A i \in 1..Len(executed) : executed[i] \notin ManipulatingSqls

\* C13: the query field of a response of the Text2SQL or Chat handler is
\* the effective query: updated_query when the classifier produced a
\* non-empty one, otherwise the original text.
C13_ResponseEchoesEffectiveQuery ==
    (pc = "returned" /\ handler \in {"Text2SQL", "Chat"})
    => response.query =
          IF classification.updated_query \notin {None, ""}
          THEN classification.updated_query ELSE query

C13_Witness ==
    /\ pc = "returned"
    /\ handler = "Chat"
    /\ query = "list all customers"
    /\ response.query = "show sales for last month"

\* C14, as claimed: when the classifier rewrites the query, the handler
\* acts on the rewritten text and the response's query field holds the
\* original text.
C14_OriginalEchoed ==
    (/\ pc = "returned"
     /\ classification.updated_query \notin {None, ""}
     /\ classification.updated_query # query)
    => /\ handler_query = classification.updated_query
       /\ response.query = query

\* C14, amended: when the classifier rewrites the query, the handler acts
\* on the rewritten text and the response's query field holds the
\* rewritten text, not the original; the original stays with the caller,
\* whose display shows the response's query as the interpretation.
C14_RewrittenEchoed ==
    (/\ pc = "returned"
     /\ classification.updated_query \notin {None, ""}
     /\ classification.updated_query # query)
    => /\ handler_query = classification.updated_query
       /\ response.query = classification.updated_query
       /\ response.query # query
       /\ display_interpreted(response, query)

C14_Witness ==
    /\ pc = "returned"
    /\ handler = "Text2SQL"
    /\ response.success
    /\ query = "and last month too"
    /\ response.query = "show sales for last month"

C16_ChatAnswerOrError ==
    /\ (pc = "returned" /\ handler = "Chat")
        => /\ response.query_type = "Chat"
           /\ chat_out.kind = "value"
                => response.success /\ response.answer = chat_out.text
           /\ chat_out.kind = "null"
                => response.success /\ response.answer = ""
           /\ chat_out.kind = "raise"
                => response.success = FALSE /\ response.error = chat_out.error
    /\ handler = "Chat" => raised = None

C16_Witness ==
    /\ pc = "returned"
    /\ handler = "Chat"
    /\ chat_out.kind = "raise"
    /\ response.error = "timeout"

\* C17: a classification used for dispatch has one of the three query
\* types, the handler called is the one of that type (Chat for whatever
\* is neither Text2SQL nor Visualization), and a call that returns went
\* through a handler.
C17_EveryClassificationHasHandler ==
    /\ handler # None
        => /\ classification.query_type \in {"Text2SQL", "Visualization", "Chat"}
           /\ handler = classification.query_type
    /\ pc \in {"verify", "generate", "execute"} => handler = "Text2SQL"
    /\ pc = "visualization" => handler = "Visualization"
    /\ pc = "chat" => handler = "Chat"
    /\ pc = "returned" => handler \in {"Text2SQL", "Visualization", "Chat"}

C17_Witness ==
    /\ pc = "chat"
    /\ classify_out.kind = "value"
    /\ classify_out.query_type = "Chat"
    /\ handler = "Chat"

\* C18: when the provider is unsupported or the database cannot be
\* reached, constructing the QueryRouter fails and no route_query call
\* ever runs.
C18_NoRouterWithoutCollaborators ==
    (provider \notin {"openai", "gigachat"} \/ db_reachable = FALSE)
    => /\ pc \in {"new", "failed"}
       /\ query = None
       /\ response = NoResponse

C18_Witness ==
    /\ pc = "failed"
    /\ provider = "openai"
    /\ db_reachable = FALSE

\* C19: a result of execute_query has rows and columns and no error, or
\* an error with success=false and no rows, or only a row count with
\* success=true; error is present exactly when success is false.
C19_ResultShape ==
    db_out # NotCalled =>
        LET K == DOMAIN results IN
        /\ "success" \in K
        /\ ("error" \in K) <=> (results.success = FALSE)
        /\ \/ /\ {"rows", "columns"} \subseteq K
              /\ "error" \notin K
              /\ results.success
           \/ /\ "error" \in K
              /\ "rows" \notin K
              /\ results.success = FALSE
           \/ /\ K = {"success", "row_count", "query"}
              /\ results.success

C19_Witness ==
    /\ pc = "returned"
    /\ db_out.kind = "error"
    /\ "error" \in DOMAIN results
    /\ "rows" \notin DOMAIN results

\* C20: past a generation that did not fail, sql_query is a non-empty
\* string, and execute_query is never called with an empty statement.
C20_GeneratedSqlNonEmpty ==
    /\ (pc \in {"execute", "returned"} /\ generate_out.kind = "value")
        => generated.sql_query \notin {None, ""}
    /\ \A i \in 1..Len(executed) : executed[i] # ""

\* C22: the Text2SQL pipeline runs verify, then generate, then execute:
\* generation is called only after a verification that returned valid,
\* execute_query gets generated SQL only after a generation that returned
\* a result, and an invalid or requires_clarification verification is
\* followed by neither.
C22_VerifyGenerateExecuteOrder ==
    /\ generate_out # NotCalled
         => verify_out # NotCalled /\ verification.validation_status = "valid"
    /\ db_out # NotCalled
         => generate_out # NotCalled /\ generate_out.kind = "value"
    /\ calls.execute <= calls.generate /\ calls.generate <= calls.verify
    /\ verification.validation_status \in {"invalid", "requires_clarification"}
         => /\ generate_out = NotCalled
            /\ db_out = NotCalled
            /\ executed = <<>>

C22_Witness ==
    /\ pc = "returned"
    /\ verification.validation_status = "valid"
    /\ generate_out.kind = "value"
    /\ db_out.kind = "rows"
    /\ calls.verify = 1 /\ calls.generate = 1 /\ calls.execute = 1

\* C23: a route_query call that has ended made exactly one classification
\* call and invoked exactly one handler, and no step of the call ran more
\* than once.
C23_OneCallOfEachStep ==
    /\ \A step \in DOMAIN calls : calls[step] <= 1
    /\ pc \in {"returned", "raised"}
         => calls.classify = 1 /\ calls.process_query = 1

\* the terminal outcomes of section 4 the ended call has reached
terminal_outcomes ==
    {o \in {"Invalid", "Clarification", "Success", "Failure", "Chat answer",
            "Chat error", "Visualization not implemented"} :
        /\ response # NoResponse
        /\ CASE o = "Invalid" ->
                  /\ handler = "Text2SQL" /\ generate_out = NotCalled
                  /\ verification.validation_status = "invalid"
             [] o = "Clarification" ->
                  /\ handler = "Text2SQL" /\ generate_out = NotCalled
                  /\ verification.validation_status = "requires_clarification"
             [] o = "Success" -> handler = "Text2SQL" /\ db_out # NotCalled
             [] o = "Failure" ->
                  /\ handler = "Text2SQL" /\ generate_out # NotCalled
                  /\ db_out = NotCalled
             [] o = "Chat answer" -> handler = "Chat" /\ response.success
             [] o = "Chat error" -> handler = "Chat" /\ ~response.success
             [] OTHER -> handler = "Visualization"}

\* C24: every route_query call that ends has reached exactly one of the
\* terminal outcomes and hands one response back to its caller.
C24_EndsInOneTerminalOutcome ==
    pc \in {"returned", "raised"}
        => /\ Cardinality(terminal_outcomes) = 1
           /\ response.cls # "none"

\* C26: the history block given to the classifier is empty exactly when
\* the context is absent or holds no messages; for a Context with messages
\* it lists their role and content in order.
C26_HistoryBlockCarriesMessages ==
    classify_out # NotCalled
        => /\ (history = "") <=> (context.messages = <<>> /\ context.chat_history = <<>>)
           /\ (context.kind = "Context" /\ context.messages # <<>>)
                 => history = JoinLines(context.messages)

\* the last n elements of a sequence, all of it when it is shorter
LastN(seq, n) ==
    IF n >= Len(seq) THEN seq ELSE SubSeq(seq, Len(seq) - n + 1, Len(seq))

\* C27: for every max_messages >= 0, get_conversation_history returns the
\* last min(max_messages, len(messages)) messages in their order, so at
\* most max_messages of them, and leaves the context as it was.
C27_HistoryIsLastMessages ==
    conversation.called
        => /\ conversation.value = LastN(conversation.before, conversation.max_messages)
           /\ Len(conversation.value) <= conversation.max_messages
           /\ Len(session_context.messages) >= Len(conversation.before)
           /\ SubSeq(session_context.messages, 1, Len(conversation.before))
                  = conversation.before

\* C28: execute_query never raises, whatever the statement and whether or
\* not close() has disposed the engine: a failure comes back as a result
\* with success=false and an error string, and the result echoes the
\* query text.
C28_ExecuteQueryNeverRaises ==
    conn_result.op = "execute_query"
        => /\ ~conn_result.raised
           /\ conn_result.value.query = conn_result.query
           /\ (conn_result.engine = None \/ conn_result.db.kind = "error")
                 => /\ conn_result.value.success = FALSE
                    /\ "error" \in DOMAIN conn_result.value
                    /\ conn_result.value.error \notin {None, ""}

C28_Witness ==
    /\ conn_result.op = "execute_query"
    /\ conn_result.engine = None
    /\ conn_result.query = "SELECT * FROM customers;"
    /\ conn_result.value.success = FALSE
    /\ conn_result.value.error = NoneTypeError

\* C29: test_connection never raises and returns True exactly when the
\* connection works; called after close() it returns False.
C29_TestConnectionNeverRaises ==
    conn_result.op = "test_connection"
        => /\ ~conn_result.raised
           /\ conn_result.value = conn_result.works
           /\ conn_result.engine = None => conn_result.value = FALSE

\* the context messages the displayed list calls for: one "user" message
\* for each prompt that was answered with a response, in order
RECURSIVE ExpectedContext(_)
ExpectedContext(entries) ==
    IF Len(entries) < 2 THEN <<>>
    ELSE LET earlier == ExpectedContext(SubSeq(entries, 1, Len(entries) - 2))
             prompt == entries[Len(entries) - 1]
             reply == entries[Len(entries)]
         IN  IF reply.kind = "response"
             THEN Append(earlier, [form |-> "dict", role |-> "user",
                                   content |-> prompt.content,
                                   query_type |-> reply.content.query_type])
             ELSE earlier

\* C30: the displayed list alternates user, assistant with one assistant
\* entry per prompt, a response or an error text; the context holds one
\* "user" message for each prompt whose handling did not raise, in
\* submission order, and never an assistant message.
C30_SessionListsInStep ==
    /\ \A i \in 1..Len(st_messages) :
          st_messages[i].role = (IF i % 2 = 1 THEN "user" ELSE "assistant")
    /\ Len(st_messages) % 2 = (IF pc = "idle" THEN 0 ELSE 1)
    /\ \A i \in 1..Len(st_messages) :
          i % 2 = 0 => \/ st_messages[i].kind = "response"
                       \/ st_messages[i].content \in {"Error: " \o DisplayError,
                                                       "Error: " \o AttributeError}
    /\ LET ctx == IF pc = "idle" THEN session_context ELSE context IN
       /\ \A i \in 1..Len(ctx.messages) : ctx.messages[i].role = "user"
       /\ ctx.messages = ExpectedContext(SubSeq(st_messages, 1, 2 * (Len(st_messages) \div 2)))

C30_Witness ==
    /\ pc = "idle"
    /\ Len(st_messages) = 4
    /\ st_messages[2].kind = "text"
    /\ st_messages[4].kind = "response"
    /\ st_messages[4].content.query_type = "Visualization"
    /\ session_context.messages =
          <<[form |-> "dict", role |-> "user", content |-> st_messages[3].content,
             query_type |-> "Visualization"]>>

\* C25: two runs of route_query whose classifications differ only in
\* confidence_score, the collaborators answering alike, select the same
\* handler, pass it the same effective query and return the same response.
C25_ConfidenceDoesNotSteer ==
    (/\ pair.kind = "pair"
     /\ pair.first.raised = None /\ pair.second.raised = None
     /\ pair.first.classification.query_type = pair.second.classification.query_type
     /\ pair.first.classification.updated_query = pair.second.classification.updated_query)
    => /\ pair.first.handler = pair.second.handler
       /\ pair.first.handler_query = pair.second.handler_query
       /\ pair.first.response = pair.second.response

C25_Witness ==
    /\ pair.kind = "pair"
    /\ pair.first.classification.query_type = "Text2SQL"
    /\ pair.second.classification.query_type = "Text2SQL"
    /\ pair.first.classification.confidence_score = "1.0"
    /\ pair.second.classification.confidence_score = "0.95"
    /\ pair.first.classification.updated_query = pair.second.classification.updated_query
    /\ pair.first.response.cls = "Text2SQLResponse"
    /\ pair.first.response.success

IsStructural(line) == line.kind \in {"table", "description", "columns", "column"}

\* the structure of returned metadata: for each table in order its name
\* and column lines, and the relationships
Structure(metadata) ==
    [tables |-> [i \in 1..Len(metadata.tables) |-> SelectSeq(metadata.tables[i], IsStructural)],
     relationships |-> metadata.relationships,
     database_name |-> metadata.database_name,
     schema_name |-> metadata.schema_name]

\* C21: any two calls of get_text2sql_context that return, over an
\* unchanged schema, return the same tables in the same order, each with
\* the same columns, and the same relationships, whatever rows the tables
\* hold at each call.
C21_ContextStructureIsStable ==
    \A i, j \in 1..Len(contexts) :
        (~contexts[i].raised /\ ~contexts[j].raised)
        => /\ Structure(contexts[i].value) = Structure(contexts[j].value)
           /\ Len(contexts[i].value.tables) = Len(schema)
           /\ \A t \in 1..Len(schema) :
                 /\ contexts[i].value.tables[t][1].name = schema[t].name
                 /\ Len(SelectSeq(contexts[i].value.tables[t], LAMBDA l : l.kind = "column"))
                       = Len(schema[t].columns)

C21_Witness ==
    /\ Len(contexts) = 2
    /\ Len(schema) = 2
    /\ schema[1].name = "orders"
    /\ ~contexts[1].raised /\ ~contexts[2].raised
    /\ contexts[1].value # contexts[2].value
    /\ contexts[1].value.relationships = <<"orders.customer_id -> customers.id">>
    /\ Structure(contexts[1].value) = Structure(contexts[2].value)

====
